---- MODULE Spec2Model ----
(***************************************************************************)
(* A model of get_publications.py: the paginated fetcher                   *)
(* DocRetriever.get_docs, the batch writer main with its resume logic      *)
(* (get_done_subjects), and the two pure steps of DocRetriever: the        *)
(* filter-and-rank step of process_texts and build_abstract.               *)
(***************************************************************************)
EXTENDS Integers, Sequences, FiniteSets, TLC

\* ------------------------------------------------------------------ bounds

\* The upstream holds documents on pages 1..MaxPages only.
MaxPages == 2
\* The most documents on one upstream page.
MaxPageLen == 2
\* n_docs ranges over 0..MaxDocs.
MaxDocs == 3
\* n_file ranges over 1..MaxNFile.
MaxNFile == 3
\* The script is started at most MaxRuns times.
MaxRuns == 2
\* The most lemmas of a text handed to the filter-and-rank step.
MaxLemmas == 5
\* The positions of an inverted index are drawn from 0..MaxPos-1.
MaxPos == 4

\* The words of the texts.
Words == {"a", "b", "c"}

\* The subjects file (subjects.json), in the order of its keys.
SubjectsFile == <<"X", "Y", "Z">>

\* ------------------------------------------------------------------- state

VARIABLES
  files,      \* data/openalex/docs: file number -> persisted unit
  n_docs,     \* main's parameter n_docs
  n_file,     \* main's parameter n_file
  run,        \* how many times the script has been started
  pc,         \* where the run is
  err,        \* the exception that ended the run, "none" while there is none
  done,       \* main's done
  si,         \* position of main's for loop in the subjects
  batch,      \* main's batch: subject -> records
  cnt,        \* main's cnt
  file_nr,    \* main's file_nr
  yielded,    \* get_docs' yielded
  page,       \* get_docs' page
  res,        \* the documents of res['results'] that the for loop has not reached
  \* the upstream's side of the current get_docs call, and the history of the run
  files0,     \* the persisted units when the run started
  flushed,    \* the file numbers written by line 117 in this run
  written,    \* the file numbers written by line 117 or 122 in this run
  out,        \* subject -> the records get_docs yielded for it in this run
  served,     \* how many documents with an abstract the current get_docs call was served
  asked,      \* the page numbers the current get_docs call requested
  exhausted,  \* whether the current get_docs call was answered without 'results'
  \* the pure steps of DocRetriever, each applied to an input of its own
  fpc,        \* "idle", "input" (the arguments are set) or "output" (it returned)
  lemmas,     \* process_texts' lemmas (line 78)
  vocab,      \* DocRetriever.vocab
  ranked,     \* what process_texts returns (line 84)
  abstract_idx, \* build_abstract's abstract_idx: the entries of the dict, in its order
  text        \* what build_abstract returns: the pieces appended to text, in order

mainVars == <<files, n_docs, n_file, run, pc, err, done, si, batch, cnt, file_nr>>
docsVars == <<yielded, page, res>>
histVars == <<files0, flushed, written, out, served, asked, exhausted>>
pureVars == <<fpc, lemmas, vocab, ranked, abstract_idx, text>>
vars == <<mainVars, docsVars, histVars, pureVars>>

\* -------------------------------------------------------------- data model

EmptyMap == [k \in {} |-> <<>>]

\* m with key k set to v, whether or not k is a key already (d[k] = v).
Put(m, k, v) == [x \in (DOMAIN m) \cup {k} |-> IF x = k THEN v ELSE m[x]]

Min(a, b) == IF a <= b THEN a ELSE b

\* A document of a result page. abstract is "null" when abstract_inverted_index
\* is None; normalizes is FALSE when process_texts raises on the document.
DocShapes ==
  { [abstract |-> "index", normalizes |-> TRUE],
    [abstract |-> "index", normalizes |-> FALSE],
    [abstract |-> "null",  normalizes |-> TRUE] }

\* What one page request is answered: a JSON object without 'results'
\* (has_results is FALSE), or one with the documents of its 'results'. Pages
\* after MaxPages hold no documents.
NoResults == [has_results |-> FALSE, results |-> <<>>]

Responses(p) ==
  {NoResults} \cup
  { [has_results |-> TRUE, results |-> d] :
      d \in UNION { [1..k -> DocShapes] :
                      k \in 0..(IF p <= MaxPages THEN MaxPageLen ELSE 0) } }

\* How many of the documents r[1..i] have an abstract.
RECURSIVE NWithAbstract(_, _)
NWithAbstract(r, i) ==
  IF i = 0 THEN 0
  ELSE NWithAbstract(r, i - 1) + (IF r[i].abstract = "index" THEN 1 ELSE 0)

\* The documents of a result page as the for loop of line 48 sees them. A
\* document is named by the subject s whose collection it is in and by its rank
\* among the documents with an abstract of that collection, of which k were on
\* the pages before; a document without abstract has rank 0.
Results(s, k, r) ==
  [i \in 1..Len(r) |->
     [subject |-> s,
      rank |-> IF r[i].abstract = "index" THEN k + NWithAbstract(r, i) ELSE 0,
      abstract |-> r[i].abstract,
      normalizes |-> r[i].normalizes]]

\* The dict get_docs yields for a document (lines 51-54).
Record(doc) == [subject |-> doc.subject, rank |-> doc.rank]

\* Line 50 without its test: every document is taken.
QualifiesAlways(doc) == TRUE

\* Line 50.
Qualifies(doc) == doc.abstract /= "null"

\* Line 56.
ReachedN(y, n) == y = n

\* Line 59. The upstream answers every page after MaxPages alike, so the
\* cursor is kept only up to MaxPages + 1.
NextPageNr(p) == Min(p + 1, MaxPages + 1)

\* get_done_subjects reading the first unit only.
GetDoneFirstUnit(fs) == IF 1 \in DOMAIN fs THEN DOMAIN fs[1] ELSE {}

\* get_done_subjects (lines 125-131).
GetDoneSubjects(fs) == UNION { DOMAIN fs[f] : f \in DOMAIN fs }

\* Line 115 counting n_docs for every subject.
CountSubjectFull(c, b, s) == c + n_docs

\* Line 115.
CountSubject(c, b, s) == c + Len(b[s])

\* Line 116 one record early.
FlushDueEarly(c, nf) == c >= nf - 1

\* Line 116.
FlushDue(c, nf) == c >= nf

\* Line 121 testing the record count instead of the batch.
ResidualByCnt(b) == cnt > 0

\* Line 121.
Residual(b) == Cardinality(DOMAIN b) > 0

\* json.dump(batch, open(f'.../{nr}.json', 'w')) (lines 117, 122).
Dump(fs, nr, b) == Put(fs, nr, b)

Subject == SubjectsFile[si]

\* ----------------------------------------- process_texts: filter and rank

\* Counter(lemmas) (line 79): a dict, so its keys are in the order of their
\* first occurrence; here the sequence of its items.
RECURSIVE Counter(_)
Counter(ls) ==
  IF ls = <<>> THEN <<>>
  ELSE LET c == Counter(SubSeq(ls, 1, Len(ls) - 1))
           w == ls[Len(ls)]
       IN IF \E i \in 1..Len(c) : c[i].key = w
          THEN [i \in 1..Len(c) |->
                  IF c[i].key = w THEN [key |-> w, n |-> c[i].n + 1] ELSE c[i]]
          ELSE Append(c, [key |-> w, n |-> 1])

\* Lines 80-83: the items whose word is in the vocabulary, in the Counter's order.
VocabLemmas(c, v) == SelectSeq(c, LAMBDA e : e.key \in v)

\* The item e put into the sorted items r: before the first item of smaller
\* count, or, when ties go first, before the first item of no greater count.
RECURSIVE Insert(_, _, _)
Insert(r, e, tiesFirst) ==
  IF r = <<>> THEN <<e>>
  ELSE IF e.n > r[1].n \/ (tiesFirst /\ e.n = r[1].n) THEN <<e>> \o r
  ELSE <<r[1]>> \o Insert(Tail(r), e, tiesFirst)

\* The items sorted by falling count, each inserted in turn.
RECURSIVE Sorted(_, _)
Sorted(items, tiesFirst) ==
  IF items = <<>> THEN <<>>
  ELSE Insert(Sorted(SubSeq(items, 1, Len(items) - 1), tiesFirst),
              items[Len(items)], tiesFirst)

\* A sort that is not stable: of items of equal count the later goes first.
MostCommonTiesReversed(c) == Sorted(c, TRUE)

\* Counter.most_common() (line 84): sorted(items, key=itemgetter(1),
\* reverse=True), a stable sort: items of equal count keep their order.
MostCommon(c) == Sorted(c, FALSE)

\* Lines 79-84.
FilterAndRank(ls, v) ==
  LET r == MostCommon(VocabLemmas(Counter(ls), v)) IN [i \in 1..Len(r) |-> r[i].key]

\* ------------------------------------------------------- build_abstract

\* Line 89 counting the words of the index instead of their positions.
NWordsKeys(idx) == Len(idx)

\* Line 89.
RECURSIVE NWords(_)
NWords(idx) ==
  IF idx = <<>> THEN 0
  ELSE Cardinality(idx[Len(idx)].pos) + NWords(SubSeq(idx, 1, Len(idx) - 1))

\* Lines 91-93: the inner loop over the words, from the k-th entry on.
RECURSIVE WordsAt(_, _, _)
WordsAt(idx, i, k) ==
  IF k > Len(idx) THEN <<>>
  ELSE (IF i \in idx[k].pos THEN <<idx[k].word, " ">> ELSE <<>>)
       \o WordsAt(idx, i, k + 1)

\* Lines 90-93: the outer loop, from position i on.
RECURSIVE BuildFrom(_, _, _)
BuildFrom(idx, i, n) ==
  IF i >= n THEN <<>> ELSE WordsAt(idx, i, 1) \o BuildFrom(idx, i + 1, n)

\* build_abstract (lines 86-94).
BuildAbstract(idx) == BuildFrom(idx, 0, NWords(idx))

\* -------------------------------------------------------------------- Init

\* No pure step is under study.
PureIdle ==
  /\ fpc = "idle"
  /\ lemmas = <<>>
  /\ vocab = {}
  /\ ranked = <<>>
  /\ abstract_idx = <<>>
  /\ text = <<>>

\* No process is running: main's and get_docs' variables hold nothing, and
\* neither does the history of the run.
NoProcess ==
  /\ done = {}
  /\ si = 1
  /\ batch = EmptyMap
  /\ cnt = 0
  /\ file_nr = 1
  /\ yielded = 0
  /\ page = 1
  /\ res = <<>>
  /\ files0 = EmptyMap
  /\ flushed = {}
  /\ written = {}
  /\ out = EmptyMap
  /\ served = 0
  /\ asked = {}
  /\ exhausted = FALSE

\* The process ends: what it held in memory is gone.
ProcessEnds ==
  /\ done' = {}
  /\ si' = 1
  /\ batch' = EmptyMap
  /\ cnt' = 0
  /\ file_nr' = 1
  /\ yielded' = 0
  /\ page' = 1
  /\ res' = <<>>
  /\ files0' = EmptyMap
  /\ flushed' = {}
  /\ written' = {}
  /\ out' = EmptyMap
  /\ served' = 0
  /\ asked' = {}
  /\ exhausted' = FALSE

\* The script has not been started and the folder of units is empty.
Init ==
  /\ files = EmptyMap
  /\ run = 0
  /\ pc = "start"
  /\ err = "none"
  /\ NoProcess
  /\ n_docs \in 0..MaxDocs
  /\ n_file \in 1..MaxNFile
  /\ PureIdle

\* ----------------------------------------------------------------- actions

\* The script is started: main, lines 102-107.
StartRun ==
  /\ UNCHANGED pureVars
  /\ pc = "start"
  /\ run < MaxRuns
  /\ run' = run + 1
  /\ done' = GetDoneSubjects(files)
  /\ batch' = EmptyMap
  /\ cnt' = 0
  /\ file_nr' = 1
  /\ si' = 1
  /\ pc' = "loop"
  /\ err' = "none"
  /\ files0' = files
  /\ flushed' = {}
  /\ written' = {}
  /\ out' = EmptyMap
  /\ UNCHANGED <<files, n_docs, n_file, docsVars, served, asked, exhausted>>

\* Lines 108-110: the subject is in done.
SkipSubject ==
  /\ UNCHANGED pureVars
  /\ pc = "loop"
  /\ si <= Len(SubjectsFile)
  /\ Subject \in done
  /\ si' = si + 1
  /\ UNCHANGED <<files, n_docs, n_file, run, pc, err, done, batch, cnt, file_nr,
                 docsVars, histVars>>

\* Lines 111-113 and 39-40: the subject gets its key and get_docs is entered.
BeginSubject ==
  /\ UNCHANGED pureVars
  /\ pc = "loop"
  /\ si <= Len(SubjectsFile)
  /\ Subject \notin done
  /\ batch' = Put(batch, Subject, <<>>)
  /\ yielded' = 0
  /\ page' = 1
  /\ res' = <<>>
  /\ pc' = "fetch"
  /\ out' = Put(out, Subject, <<>>)
  /\ UNCHANGED <<files, n_docs, n_file, run, err, done, si, cnt, file_nr,
                 files0, flushed, written, served, asked, exhausted>>

\* get_docs returns (lines 46, 58, or the end of the while loop): its frame,
\* with yielded, page and res, is gone.
Returned ==
  /\ yielded' = 0
  /\ page' = 1
  /\ res' = <<>>

\* Line 41 with yielded >= n: the while loop ends and get_docs returns.
WhileEnds ==
  /\ UNCHANGED pureVars
  /\ pc = "fetch"
  /\ ~(yielded < n_docs)
  /\ pc' = "subjdone"
  /\ Returned
  /\ UNCHANGED <<files, n_docs, n_file, run, err, done, si, batch, cnt, file_nr,
                 histVars>>

\* Lines 41-47: a page is requested and answered.
FetchPage ==
  /\ UNCHANGED pureVars
  /\ pc = "fetch"
  /\ yielded < n_docs
  /\ asked' = asked \cup {page}
  /\ \E r \in Responses(page) :
       IF ~r.has_results
       THEN /\ pc' = "subjdone"
            /\ Returned
            /\ exhausted' = TRUE
            /\ UNCHANGED served
       ELSE /\ pc' = "scan"
            /\ res' = Results(Subject, served, r.results)
            /\ served' = served + NWithAbstract(r.results, Len(r.results))
            /\ UNCHANGED <<yielded, page, exhausted>>
  /\ UNCHANGED <<files, n_docs, n_file, run, err, done, si, batch, cnt, file_nr,
                 files0, flushed, written, out>>

\* Line 42 raises (the request fails, or its body is no JSON): nothing catches
\* the exception and the process ends, its memory with it.
FetchRaises ==
  /\ UNCHANGED pureVars
  /\ pc = "fetch"
  /\ yielded < n_docs
  /\ pc' = "crashed"
  /\ err' = "request"
  /\ ProcessEnds
  /\ UNCHANGED <<files, n_docs, n_file, run>>

\* Lines 48-50: the next document of the page has no abstract.
ScanSkip ==
  /\ UNCHANGED pureVars
  /\ pc = "scan"
  /\ res /= <<>>
  /\ ~Qualifies(Head(res))
  /\ res' = Tail(res)
  /\ UNCHANGED <<mainVars, yielded, page, histVars>>

\* Lines 48-58 and 114: the next document of the page has an abstract; it is
\* processed, yielded and appended to the batch, and get_docs returns when it
\* is the n-th.
ScanYield ==
  /\ UNCHANGED pureVars
  /\ pc = "scan"
  /\ res /= <<>>
  /\ Qualifies(Head(res))
  /\ Head(res).normalizes
  /\ batch' = Put(batch, Subject, Append(batch[Subject], Record(Head(res))))
  /\ out' = Put(out, Subject, Append(out[Subject], Record(Head(res))))
  /\ IF ReachedN(yielded + 1, n_docs)
     THEN /\ pc' = "subjdone"
          /\ Returned
     ELSE /\ pc' = "scan"
          /\ yielded' = yielded + 1
          /\ res' = Tail(res)
          /\ UNCHANGED page
  /\ UNCHANGED <<files, n_docs, n_file, run, err, done, si, cnt, file_nr,
                 files0, flushed, written, served, asked, exhausted>>

\* Line 52 raises inside process_texts: neither get_docs nor main catches the
\* exception and the process ends, its memory with it.
ScanRaises ==
  /\ UNCHANGED pureVars
  /\ pc = "scan"
  /\ res /= <<>>
  /\ Qualifies(Head(res))
  /\ ~Head(res).normalizes
  /\ pc' = "crashed"
  /\ err' = "normalize"
  /\ ProcessEnds
  /\ UNCHANGED <<files, n_docs, n_file, run>>

\* Line 59: the page is consumed.
NextPage ==
  /\ UNCHANGED pureVars
  /\ pc = "scan"
  /\ res = <<>>
  /\ page' = NextPageNr(page)
  /\ pc' = "fetch"
  /\ UNCHANGED <<files, n_docs, n_file, run, err, done, si, batch, cnt, file_nr,
                 yielded, res, histVars>>

\* Lines 115-120: the subject is finished; the batch is dumped when due.
EndSubject ==
  /\ UNCHANGED pureVars
  /\ pc = "subjdone"
  /\ LET c == CountSubject(cnt, batch, Subject) IN
       IF FlushDue(c, n_file)
       THEN /\ files' = Dump(files, file_nr, batch)
            /\ flushed' = flushed \cup {file_nr}
            /\ written' = written \cup {file_nr}
            /\ file_nr' = file_nr + 1
            /\ cnt' = 0
            /\ batch' = EmptyMap
       ELSE /\ cnt' = c
            /\ UNCHANGED <<files, flushed, written, file_nr, batch>>
  /\ si' = si + 1
  /\ pc' = "loop"
  /\ served' = 0
  /\ asked' = {}
  /\ exhausted' = FALSE
  /\ UNCHANGED <<n_docs, n_file, run, err, done, docsVars, files0, out>>

\* Lines 121-122: the for loop is over; a residual batch is dumped.
Finish ==
  /\ UNCHANGED pureVars
  /\ pc = "loop"
  /\ si > Len(SubjectsFile)
  /\ IF Residual(batch)
     THEN /\ files' = Dump(files, file_nr, batch)
          /\ written' = written \cup {file_nr}
     ELSE UNCHANGED <<files, written>>
  /\ pc' = "done"
  /\ UNCHANGED <<n_docs, n_file, run, err, done, si, batch, cnt, file_nr,
                 docsVars, files0, flushed, out, served, asked, exhausted>>

\* The process has ended, by returning from main or by an exception; the
\* script may be started again on the same folder, with nothing in memory.
Restart ==
  /\ UNCHANGED pureVars
  /\ pc \in {"done", "crashed"}
  /\ run < MaxRuns
  /\ pc' = "start"
  /\ err' = "none"
  /\ ProcessEnds
  /\ UNCHANGED <<files, n_docs, n_file, run>>

\* A step of the running process.
ProcessStep ==
  \/ SkipSubject
  \/ BeginSubject
  \/ WhileEnds
  \/ FetchPage
  \/ FetchRaises
  \/ ScanSkip
  \/ ScanYield
  \/ ScanRaises
  \/ NextPage
  \/ EndSubject
  \/ Finish

Next ==
  \/ StartRun
  \/ SkipSubject
  \/ BeginSubject
  \/ WhileEnds
  \/ FetchPage
  \/ FetchRaises
  \/ ScanSkip
  \/ ScanYield
  \/ ScanRaises
  \/ NextPage
  \/ EndSubject
  \/ Finish
  \/ Restart

Spec == Init /\ [][Next]_vars

\* The running process takes its next step whenever it has one: it is one
\* sequential thread, and every request is answered or raises.
SpecFair == Spec /\ WF_vars(ProcessStep)

\* ------------------------------------------------ the pure steps, applied

\* main is not running: the folder is empty and its parameters are the
\* defaults of line 97.
MainIdle ==
  /\ files = EmptyMap
  /\ n_docs = 50
  /\ n_file = 2000
  /\ run = 0
  /\ pc = "start"
  /\ err = "none"
  /\ NoProcess

\* The sequences over s of length at most n.
SeqsUpTo(s, n) == UNION { [1..k -> s] : k \in 0..n }

\* The inverted indexes: dicts whose keys are distinct words, each with a
\* non-empty set of positions; the sets need not cover a range, nor be disjoint.
Indexes ==
  { idx \in UNION { [1..k -> [word : Words,
                              pos : (SUBSET (0..(MaxPos - 1))) \ {{}}]] :
                      k \in 0..Cardinality(Words) } :
      \A i, j \in 1..Len(idx) : i /= j => idx[i].word /= idx[j].word }

InitRank ==
  /\ MainIdle
  /\ fpc = "input"
  /\ lemmas \in SeqsUpTo(Words, MaxLemmas)
  /\ vocab \in SUBSET Words
  /\ ranked = <<>>
  /\ abstract_idx = <<>>
  /\ text = <<>>

\* process_texts, lines 79-84.
Rank ==
  /\ fpc = "input"
  /\ ranked' = FilterAndRank(lemmas, vocab)
  /\ fpc' = "output"
  /\ UNCHANGED <<mainVars, docsVars, histVars, lemmas, vocab, abstract_idx, text>>

SpecRank == InitRank /\ [][Rank]_vars

InitBuild ==
  /\ MainIdle
  /\ fpc = "input"
  /\ abstract_idx \in Indexes
  /\ text = <<>>
  /\ lemmas = <<>>
  /\ vocab = {}
  /\ ranked = <<>>

\* build_abstract, lines 86-94.
Build ==
  /\ fpc = "input"
  /\ text' = BuildAbstract(abstract_idx)
  /\ fpc' = "output"
  /\ UNCHANGED <<mainVars, docsVars, histVars, lemmas, vocab, ranked, abstract_idx>>

SpecBuild == InitBuild /\ [][Build]_vars

\* -------------------------------------------------- properties of the run

InGetDocs == pc \in {"fetch", "scan"}

RECURSIVE SumLen(_, _)
SumLen(m, keys) ==
  IF keys = {} THEN 0
  ELSE LET k == CHOOSE x \in keys : TRUE IN Len(m[k]) + SumLen(m, keys \ {k})

\* The number of records of a unit.
NRecords(unit) == SumLen(unit, DOMAIN unit)

\* The first min(n_docs, Q) documents with an abstract of the current
\* subject's collection, Q of them being on the pages served, as records.
FirstQualifying ==
  [i \in 1..Min(n_docs, served) |-> [subject |-> Subject, rank |-> i]]

IsPrefix(a, b) == Len(a) <= Len(b) /\ \A i \in 1..Len(a) : a[i] = b[i]

\* C1: while get_docs runs, the pages were requested in order 1, 2, ..., and
\* what it has yielded is a prefix, of at most n_docs records, of the served
\* documents that have an abstract, in upstream order; when it returns, what
\* it yielded is exactly the first min(n_docs, Q) of them, Q being their number
\* on the pages served before the response without 'results'.
C1_YieldsFirstQualifying ==
  (InGetDocs \/ pc = "subjdone") =>
    /\ asked = 1..Cardinality(asked)
    /\ Len(batch[Subject]) <= n_docs
    /\ InGetDocs => yielded = Len(batch[Subject])
    /\ IsPrefix(batch[Subject], FirstQualifying)
    /\ pc = "subjdone" => batch[Subject] = FirstQualifying

\* get_docs returned after its n-th document, on the second page, leaving a
\* served document with an abstract unyielded.
C1_Witness ==
  /\ pc = "subjdone"
  /\ ~exhausted
  /\ n_docs = 2
  /\ asked = {1, 2}
  /\ served = 3
  /\ Len(batch[Subject]) = 2

\* C2: a call of get_docs whose page requests are all answered ends.
C2_GetDocsTerminates == InGetDocs ~> (pc \in {"subjdone", "crashed"})

\* C3: done is the union of the keys of the units persisted before the run
\* started; a subject in done is never handed to get_docs and is no key of the
\* batch or of a unit written by the run; when the run returns, every other
\* subject of the input was handed to get_docs and is a key of a unit written
\* by the run.
C3_Resume ==
  run > 0 =>
    /\ done = {s \in {SubjectsFile[i] : i \in 1..Len(SubjectsFile)} :
                 \E f \in DOMAIN files0 : s \in DOMAIN files0[f]}
    /\ \A s \in done :
         /\ s \notin DOMAIN batch
         /\ s \notin DOMAIN out
         /\ \A f \in written : s \notin DOMAIN files[f]
    /\ pc = "done" =>
         \A i \in 1..Len(SubjectsFile) :
           SubjectsFile[i] \notin done =>
             /\ SubjectsFile[i] \in DOMAIN out
             /\ \E f \in written : SubjectsFile[i] \in DOMAIN files[f]

\* A resumed run found X and Y persisted and processed Z only.
C3_Witness ==
  /\ run = 2
  /\ pc = "done"
  /\ done = {"X", "Y"}
  /\ DOMAIN out = {"Z"}
  /\ Len(out["Z"]) > 0

\* C4: every unit written by line 117 holds at least n_file records.
C4_FlushedUnitsFull ==
  \A f \in flushed : f \in DOMAIN files /\ NRecords(files[f]) >= n_file

\* The first unit written holds the records of two subjects, more than n_file
\* in all, neither subject reaching n_file alone.
C4_Witness ==
  /\ 1 \in flushed
  /\ DOMAIN files[1] = {"X", "Y"}
  /\ NRecords(files[1]) > n_file
  /\ Len(files[1]["X"]) < n_file
  /\ Len(files[1]["Y"]) < n_file

C6_NormalizationFailureCaught == ~(pc = "crashed" /\ err = "normalize")

\* What line 115-120 must do with the records of the subject that ends.
KeptAndCounted ==
  LET c == cnt + Len(out[Subject]) IN
    IF c >= n_file
    THEN /\ file_nr \in DOMAIN files'
         /\ Subject \in DOMAIN files'[file_nr]
         /\ files'[file_nr][Subject] = out[Subject]
    ELSE /\ Subject \in DOMAIN batch'
         /\ batch'[Subject] = out[Subject]
         /\ cnt' = c

\* C7: once a page response of a get_docs call lacks 'results', the call
\* requests no further page; the response leaves the batch as it is, and the
\* next step of main counts the records yielded for the subject, keeps them
\* under its key and moves to the next subject.
C7_ExhaustionEndsSubjectOnly ==
  /\ [](InGetDocs => ~exhausted)
  /\ [][(InGetDocs /\ exhausted') =>
          (pc' = "subjdone" /\ batch' = batch /\ batch[Subject] = out[Subject])]_vars
  /\ [][(pc = "subjdone" /\ exhausted) =>
          (pc' = "loop" /\ si' = si + 1 /\ KeptAndCounted)]_vars

\* The fetch of X ended on a response without 'results' after one record,
\* short of n_docs, with the record in the batch.
C7_Witness ==
  /\ pc = "subjdone"
  /\ Subject = "X"
  /\ exhausted
  /\ n_docs > 1
  /\ n_file > 1
  /\ Len(batch["X"]) = 1

\* C10: the units that existed when the run started are still there, unchanged.
C10_EarlierUnitsKept ==
  \A f \in DOMAIN files0 : f \in DOMAIN files /\ files[f] = files0[f]


\* ------------------------------------------ properties of the pure steps

\* How often w occurs in ls.
Occurrences(ls, w) == Cardinality({i \in 1..Len(ls) : ls[i] = w})

\* Where w occurs first in ls.
FirstAt(ls, w) == CHOOSE i \in 1..Len(ls) : ls[i] = w /\ \A j \in 1..(i - 1) : ls[j] /= w

\* C8: the result has no duplicates, holds exactly the lemmas that are in the
\* vocabulary, and is ordered by falling number of occurrences and, among
\* lemmas of equal number, by first occurrence.
C8_RankedByCountThenFirst ==
  fpc = "output" =>
    /\ \A i, j \in 1..Len(ranked) : i /= j => ranked[i] /= ranked[j]
    /\ {ranked[i] : i \in 1..Len(ranked)} = {lemmas[i] : i \in 1..Len(lemmas)} \cap vocab
    /\ \A i, j \in 1..Len(ranked) :
         i < j =>
           \/ Occurrences(lemmas, ranked[i]) > Occurrences(lemmas, ranked[j])
           \/ /\ Occurrences(lemmas, ranked[i]) = Occurrences(lemmas, ranked[j])
              /\ FirstAt(lemmas, ranked[i]) < FirstAt(lemmas, ranked[j])

\* [a,b,a,c,b] with vocabulary {a,b,c} gave [a,b,c].
C8_Witness ==
  /\ fpc = "output"
  /\ lemmas = <<"a", "b", "a", "c", "b">>
  /\ vocab = {"a", "b", "c"}
  /\ ranked = <<"a", "b", "c">>

RECURSIVE NWordsTotal(_)
NWordsTotal(idx) ==
  IF idx = <<>> THEN 0
  ELSE Cardinality(idx[1].pos) + NWordsTotal(Tail(idx))

\* The position sets of idx cover 0..N-1 exactly once, N being their total size.
CoversOnce(idx) ==
  UNION {idx[k].pos : k \in 1..Len(idx)} =
    0..(NWordsTotal(idx) - 1)

\* C9: for an index whose position sets cover 0..N-1 exactly once, the text is
\* N words, each followed by one space, the word at i being the one whose
\* position set holds i.
C9_BuildAbstractInverts ==
  (fpc = "output" /\ CoversOnce(abstract_idx)) =>
    /\ Len(text) = 2 * NWordsTotal(abstract_idx)
    /\ \A i \in 0..(NWordsTotal(abstract_idx) - 1) :
         /\ \E k \in 1..Len(abstract_idx) :
              i \in abstract_idx[k].pos /\ text[2 * i + 1] = abstract_idx[k].word
         /\ text[2 * i + 2] = " "

\* The index {b: [0, 2], a: [1], c: [3]} gave "b a b c ".
C9_Witness ==
  /\ fpc = "output"
  /\ abstract_idx = << [word |-> "b", pos |-> {0, 2}],
                       [word |-> "a", pos |-> {1}],
                       [word |-> "c", pos |-> {3}] >>
  /\ text = <<"b", " ", "a", " ", "b", " ", "c", " ">>

====
